---- MODULE Spec2Model ----
(***************************************************************************)
(* Zabbix graph downloader (src/main.py): the pipeline                      *)
(*   authenticate -> enumerate hosts/items -> build queue -> download       *)
(* as a state machine.  Strings are sequences of one-character strings, so  *)
(* that the formatting of file names and URLs is modelled by what it does.  *)
(***************************************************************************)
EXTENDS Integers, Sequences, FiniteSets, TLC

VARIABLES
    pc,        \* where main is: start, build, download, join, completed, ...
    run,       \* "first" or "second" execution against the same directory
    hostList,  \* HOST_LIST, the configured host names
    pre,       \* the files that existed when the current run started
    ans,       \* the API's answer for each configured host (by position)
    hostIdx,   \* position of create_download_queue's host loop
    queue,     \* download_queue: dict url -> path, in insertion order
    dirs,      \* host directories that exist
    files,     \* paths holding a completely written file
    partial,   \* paths holding a truncated / partially written file
    opened,    \* paths opened for writing during the current run
    threads,   \* download_images_multithreaded's thread list
    progress,  \* progress_bar's count
    cookies,   \* "none" or "set": the result of get_auth_cookies
    hostGets,  \* host.get requests issued in the current run
    itemGets,  \* item.get requests issued in the current run
    err,       \* class of the last exception raised
    firstOk    \* every download task of the first run returned True

vars == <<pc, run, hostList, pre, ans, hostIdx, queue, dirs, files, partial,
          opened, threads, progress, cookies, hostGets, itemGets, err, firstOk>>

----------------------------------------------------------------------------
(* Bounds and input sets *)

\* The retry ceiling the model runs with (the source sets it to 500).
DOWNLOAD_RETRY_COUNT == 2

FORBIDDEN_SYMBOLS == <<"<", ">", ":", "\"", "/", "\\", "|", "?", "*">>

\* Items the API may return: itemid and name are strings.
ItemA == [itemid |-> <<"1">>, name |-> <<"a">>]
ItemB == [itemid |-> <<"1">>, name |-> <<"a", "_">>]
ItemC == [itemid |-> <<"_", "1">>, name |-> <<"a", ":">>]
ItemD == [itemid |-> <<"2">>, name |-> <<"a">>]

ItemLists == { <<>>, <<ItemA>>, <<ItemA, ItemB>>, <<ItemB, ItemC>>, <<ItemA, ItemD>> }

HostLists == { <<>>, <<"h">>, <<"h", "g">>, <<"h", "h">> }

\* How a JSON-RPC call can end.
ApiFailures == {"http_error", "network", "bad_json", "no_result"}

\* Final HTTP statuses of the login POST.
LoginStatuses == {200, 304, 403, 500}

----------------------------------------------------------------------------
(* Pure functions *)

Replace(s, symbol) == SelectSeq(s, LAMBDA c : c # symbol)

RECURSIVE StripAll(_, _)
StripAll(s, symbols) ==
    IF symbols = <<>> THEN s
    ELSE StripAll(Replace(s, Head(symbols)), Tail(symbols))

sanitize_filename(filename) == StripAll(filename, FORBIDDEN_SYMBOLS)

\* urllib.parse.quote: letters, digits and _.-~/ are kept, the rest is
\* percent-encoded.
QuoteChar(c) ==
    IF c \in {"a", "1", "2", "_", ".", "-", "~", "/"} THEN <<c>>
    ELSE IF c = ":" THEN <<"%", "3", "A">>
    ELSE <<"%", c>>

RECURSIVE quote(_)
quote(s) == IF s = <<>> THEN <<>> ELSE QuoteChar(Head(s)) \o quote(Tail(s))

generate_graph_url(item_id) ==
    <<"https://zabbix/chart.php?from=F&to=T&itemids[0]=">> \o quote(item_id)
      \o <<"&type=0&profileIdx=web.item.graph.filter&profileIdx2=">>
      \o quote(item_id) \o <<"&width=1920&height=200">>

\* the item id is left out of the file name
MakeFilenameNoId(host_name, item_name, item_id) ==
    <<host_name, "_">> \o item_name
      \o <<"_", "2024-12-23_000000_2025-12-24_000000", ".png">>

\* f"{host_name}_{item_name}_{item_id}_{time_str}.png"
MakeFilename(host_name, item_name, item_id) ==
    <<host_name, "_">> \o item_name \o <<"_">> \o item_id
      \o <<"_", "2024-12-23_000000_2025-12-24_000000", ".png">>

\* os.path.join(os.path.join(os.getcwd(), host_name), filename)
FilePath(host_name, item) ==
    <<host_name, "/">>
      \o MakeFilename(host_name, sanitize_filename(item.name), item.itemid)

\* download_queue[graph_url] = file_path on a dict that keeps insertion order
DictSet(q, url, path) ==
    IF \E k \in 1..Len(q) : q[k].url = url
    THEN [k \in 1..Len(q) |-> IF q[k].url = url THEN [url |-> url, path |-> path] ELSE q[k]]
    ELSE Append(q, [url |-> url, path |-> path])

\* os.path.exists is asked about the bare file name, not the joined path
ExistsInCwd(path) == SubSeq(path, 3, Len(path)) \in files \cup partial

\* os.path.exists(file_path)
Exists(path) == path \in files \cup partial

\* the item loop without the check for an existing file
RECURSIVE AddItemsNoSkip(_, _, _)
AddItemsNoSkip(q, host_name, items) ==
    IF items = <<>> THEN q
    ELSE LET item == Head(items)
         IN  AddItemsNoSkip(DictSet(q, generate_graph_url(item.itemid),
                                    FilePath(host_name, item)),
                            host_name, Tail(items))

\* the item loop of create_download_queue
RECURSIVE AddItems(_, _, _)
AddItems(q, host_name, items) ==
    IF items = <<>> THEN q
    ELSE LET item == Head(items)
             file_path == FilePath(host_name, item)
         IN  AddItems(IF Exists(file_path) THEN q
                      ELSE DictSet(q, generate_graph_url(item.itemid), file_path),
                      host_name, Tail(items))

\* response.raise_for_status()
RaiseForStatus(status) == status >= 400 /\ status < 600

\* The exception each failure of a JSON-RPC call raises.
ExceptionOf(failure) ==
    CASE failure = "http_error" -> "HTTPError"
      [] failure = "network"    -> "ConnectionError"
      [] failure = "bad_json"   -> "JSONDecodeError"
      [] failure = "no_result"  -> "KeyError"

HostCaught == {"HTTPError", "JSONDecodeError", "KeyError", "IndexError"}
ItemCaught == {"HTTPError", "JSONDecodeError"}

\* What the API answers for one configured host: host.get fails, matches
\* nothing or resolves; then item.get fails or returns a list.
ApiAnswers ==
    [hk : ApiFailures \cup {"no_match"}, ik : {"none"}, items : {<<>>}]
      \cup [hk : {"ok"}, ik : ApiFailures, items : {<<>>}]
      \cup [hk : {"ok"}, ik : {"ok"}, items : ItemLists]

Unasked == [hk |-> "unasked", ik |-> "none", items |-> <<>>]

\* Paths that may exist before the first run.
PreSets == { {}, {FilePath("h", ItemA)}, {FilePath("h", ItemB)},
             {FilePath("h", ItemA), FilePath("g", ItemA)} }

Done(t) == threads[t].st \in {"ok", "fail"}

----------------------------------------------------------------------------
(* Initial state *)

Init ==
    /\ pc = "start"
    /\ run = "first"
    /\ hostList \in HostLists
    /\ pre \in PreSets
    /\ ans = [k \in 1..Len(hostList) |-> Unasked]
    /\ hostIdx = 1
    /\ queue = <<>>
    /\ dirs = {p[1] : p \in pre}
    /\ files = pre
    /\ partial = {}
    /\ opened = {}
    /\ threads = <<>>
    /\ progress = 0
    /\ cookies = "none"
    /\ hostGets = 0
    /\ itemGets = 0
    /\ err = "none"
    /\ firstOk = FALSE

----------------------------------------------------------------------------
(* main: authentication *)

\* main's except clauses are reached without a return
LoginFailsContinue(exception) ==
    /\ pc' = "build"
    /\ err' = exception
    /\ UNCHANGED cookies

\* get_auth_cookies raises; main logs the cause and returns
LoginFails(exception) ==
    /\ pc' = "stopped"
    /\ err' = exception
    /\ UNCHANGED cookies

Authenticate ==
    /\ pc = "start"
    /\ \/ \E status \in LoginStatuses :
            IF RaiseForStatus(status)
            THEN LoginFails("HTTPError")
            ELSE /\ pc' = "build"
                 /\ cookies' = "set"
                 /\ UNCHANGED err
       \/ LoginFails("ConnectionError")
    /\ UNCHANGED <<run, hostList, pre, ans, hostIdx, queue, dirs, files, partial,
                   opened, threads, progress, hostGets, itemGets, firstOk>>

(* create_download_queue: one iteration of the host loop *)

HostFails(a) ==
    /\ a.hk \in ApiFailures
    /\ hostGets' = hostGets + 1
    /\ err' = ExceptionOf(a.hk)
    /\ IF ExceptionOf(a.hk) \in HostCaught
       THEN /\ hostIdx' = hostIdx + 1
            /\ pc' = pc
       ELSE /\ pc' = "crashed"
            /\ hostIdx' = hostIdx
    /\ UNCHANGED <<itemGets, dirs, queue>>

HostNotFound(a) ==
    /\ a.hk = "no_match"
    /\ hostGets' = hostGets + 1
    /\ hostIdx' = hostIdx + 1
    /\ UNCHANGED <<pc, err, itemGets, dirs, queue>>

ItemsFail(a) ==
    /\ a.hk = "ok"
    /\ a.ik \in ApiFailures
    /\ hostGets' = hostGets + 1
    /\ dirs' = dirs \cup {hostList[hostIdx]}
    /\ itemGets' = itemGets + 1
    /\ err' = ExceptionOf(a.ik)
    /\ IF ExceptionOf(a.ik) \in ItemCaught
       THEN /\ hostIdx' = hostIdx + 1
            /\ pc' = pc
       ELSE /\ pc' = "crashed"
            /\ hostIdx' = hostIdx
    /\ UNCHANGED queue

ItemsListed(a) ==
    /\ a.hk = "ok"
    /\ a.ik = "ok"
    /\ hostGets' = hostGets + 1
    /\ dirs' = dirs \cup {hostList[hostIdx]}
    /\ itemGets' = itemGets + 1
    /\ queue' = AddItems(queue, hostList[hostIdx], a.items)
    /\ hostIdx' = hostIdx + 1
    /\ UNCHANGED <<pc, err>>

ProcessHost ==
    /\ pc = "build"
    /\ hostIdx <= Len(hostList)
    /\ \E a \in ApiAnswers :
         /\ run = "second" => a = ans[hostIdx]
         /\ ans' = [ans EXCEPT ![hostIdx] = a]
         /\ \/ HostFails(a)
            \/ HostNotFound(a)
            \/ ItemsFail(a)
            \/ ItemsListed(a)
    /\ UNCHANGED <<run, hostList, pre, files, partial, opened, threads, progress,
                   cookies, firstOk>>

(* create_download_queue returns; download_images_multithreaded starts *)

StartDownload ==
    /\ pc = "build"
    /\ hostIdx > Len(hostList)
    /\ pc' = IF queue = <<>> THEN "noimages" ELSE "download"
    /\ UNCHANGED <<run, hostList, pre, ans, hostIdx, queue, dirs, files, partial,
                   opened, threads, progress, cookies, hostGets, itemGets, err,
                   firstOk>>

(* the loop that creates and starts one thread per queue entry *)

Spawn ==
    /\ pc = "download"
    /\ Len(threads) < Len(queue)
    /\ LET e == queue[Len(threads) + 1]
       IN  threads' = Append(threads, [url |-> e.url, path |-> e.path, st |-> "run",
                                       att |-> 0, first200 |-> 0, wrote |-> "none"])
    /\ pc' = IF Len(threads) + 1 = Len(queue) THEN "join" ELSE "download"
    /\ UNCHANGED <<run, hostList, pre, ans, hostIdx, queue, dirs, files, partial,
                   opened, progress, cookies, hostGets, itemGets, err, firstOk>>

(* download_image: one iteration of the retry loop of thread t *)

\* The iteration ends without a return: the next one follows, or the loop
\* is exhausted and download_image returns False.
AttemptFailsShared(t, first) ==
    threads' = [u \in 1..Len(threads) |->
                  IF threads[u].st # "run" THEN threads[u]
                  ELSE [threads[u] EXCEPT
                          !.att = @ + 1,
                          !.first200 = IF u = t THEN first ELSE @,
                          !.st = IF threads[u].att + 1 = DOWNLOAD_RETRY_COUNT
                                 THEN "fail" ELSE "run"]]

AttemptFails(t, first) ==
    threads' = [threads EXCEPT ![t].att = @ + 1,
                               ![t].first200 = first,
                               ![t].st = IF threads[t].att + 1 = DOWNLOAD_RETRY_COUNT
                                         THEN "fail" ELSE "run"]

First200(t) ==
    IF threads[t].first200 = 0 THEN threads[t].att + 1 ELSE threads[t].first200

\* response.status_code == 200, open() and write() succeed: return True
Saved(t) ==
    /\ threads' = [threads EXCEPT ![t].att = @ + 1, ![t].first200 = First200(t),
                                  ![t].st = "ok", ![t].wrote = "full"]
    /\ files' = files \cup {threads[t].path}
    /\ partial' = partial \ {threads[t].path}
    /\ opened' = opened \cup {threads[t].path}

\* the body is saved whatever the status is
StatusIgnored(t) ==
    /\ threads' = [threads EXCEPT ![t].att = @ + 1, ![t].st = "ok", ![t].wrote = "full"]
    /\ files' = files \cup {threads[t].path}
    /\ partial' = partial \ {threads[t].path}
    /\ opened' = opened \cup {threads[t].path}

\* a status other than 200
StatusNot200(t) ==
    /\ AttemptFails(t, threads[t].first200)
    /\ UNCHANGED <<files, partial, opened>>

\* requests.post raises (connection error, timeout)
PostRaises(t) ==
    /\ AttemptFails(t, threads[t].first200)
    /\ UNCHANGED <<files, partial, opened>>

\* 200, and open(file_path, 'wb') raises: caught by except Exception
OpenRaises(t) ==
    /\ AttemptFails(t, First200(t))
    /\ UNCHANGED <<files, partial, opened>>

\* 200, open() truncates the file and write() raises: caught as well
WriteRaises(t) ==
    /\ AttemptFails(t, First200(t))
    /\ files' = files \ {threads[t].path}
    /\ partial' = partial \cup {threads[t].path}
    /\ opened' = opened \cup {threads[t].path}

Attempt(t) ==
    /\ threads[t].st = "run"
    /\ threads[t].att < DOWNLOAD_RETRY_COUNT
    /\ \/ StatusNot200(t)
       \/ PostRaises(t)
       \/ Saved(t)
       \/ OpenRaises(t)
       \/ WriteRaises(t)
    /\ UNCHANGED <<pc, run, hostList, pre, ans, hostIdx, queue, dirs, progress,
                   cookies, hostGets, itemGets, err, firstOk>>

(* thread.join(); progress_bar.update(1) *)

\* progress is updated without waiting for the thread
JoinNoWait ==
    /\ pc = "join"
    /\ progress < Len(threads)
    /\ progress' = progress + 1
    /\ UNCHANGED <<pc, run, hostList, pre, ans, hostIdx, queue, dirs, files, partial,
                   opened, threads, cookies, hostGets, itemGets, err, firstOk>>

Join ==
    /\ pc = "join"
    /\ progress < Len(threads)
    /\ Done(progress + 1)
    /\ progress' = progress + 1
    /\ UNCHANGED <<pc, run, hostList, pre, ans, hostIdx, queue, dirs, files, partial,
                   opened, threads, cookies, hostGets, itemGets, err, firstOk>>

(* print("All downloads completed!") *)

\* completion is printed without the join loop having ended
FinishEarly ==
    /\ pc = "join"
    /\ pc' = "completed"
    /\ UNCHANGED <<run, hostList, pre, ans, hostIdx, queue, dirs, files, partial,
                   opened, threads, progress, cookies, hostGets, itemGets, err,
                   firstOk>>

Finish ==
    /\ pc = "join"
    /\ progress = Len(threads)
    /\ pc' = "completed"
    /\ UNCHANGED <<run, hostList, pre, ans, hostIdx, queue, dirs, files, partial,
                   opened, threads, progress, cookies, hostGets, itemGets, err,
                   firstOk>>

(* the program is started again in the same directory *)

Rerun ==
    /\ run = "first"
    /\ pc \in {"completed", "noimages"}
    /\ run' = "second"
    /\ firstOk' = \A t \in 1..Len(threads) : threads[t].st = "ok"
    /\ pre' = files \cup partial
    /\ pc' = "start"
    /\ hostIdx' = 1
    /\ queue' = <<>>
    /\ opened' = {}
    /\ threads' = <<>>
    /\ progress' = 0
    /\ cookies' = "none"
    /\ hostGets' = 0
    /\ itemGets' = 0
    /\ err' = "none"
    /\ UNCHANGED <<hostList, ans, dirs, files, partial>>

Downloading == Spawn \/ (\E t \in 1..Len(threads) : Attempt(t)) \/ Join \/ Finish

Next ==
    \/ Authenticate
    \/ ProcessHost
    \/ StartDownload
    \/ Spawn
    \/ \E t \in 1..Len(threads) : Attempt(t)
    \/ Join
    \/ Finish
    \/ Rerun

Spec == Init /\ [][Next]_vars

\* The download phase under fair scheduling of the threads and of the
\* orchestrator: every request returns or times out, so a step that is
\* possible is eventually taken.  Two configured hosts, an empty directory.
FairInit == Init /\ hostList = <<"h", "g">> /\ pre = {}

FairSpec == FairInit /\ [][Next]_vars /\ WF_vars(Downloading)

----------------------------------------------------------------------------
(* Properties *)

Threads == 1..Len(threads)

NumDone == Cardinality({t \in Threads : Done(t)})

GotList(k) == ans[k].hk = "ok" /\ ans[k].ik = "ok"

Range(s) == {s[k] : k \in 1..Len(s)}

\* C1: an entry whose first 200 comes at attempt K+1 (K < ceiling) is
\* reported successful after exactly K+1 requests; an entry without any 200
\* is reported failed after exactly `ceiling` requests; never more than
\* `ceiling` requests, and no request follows a 200.
C1_RetryPolicy ==
    \A t \in Threads :
        /\ threads[t].att <= DOWNLOAD_RETRY_COUNT
        /\ threads[t].first200 # 0 => threads[t].att = threads[t].first200
        /\ Done(t) =>
             IF threads[t].first200 # 0
             THEN threads[t].st = "ok"
             ELSE threads[t].st = "fail" /\ threads[t].att = DOWNLOAD_RETRY_COUNT

C3_HostIsolation ==
    /\ pc # "crashed"
    /\ (run = "first" /\ pc \in {"download", "noimages"}) =>
         \A k \in 1..Len(hostList) :
            GotList(k) =>
               \A item \in Range(ans[k].items) :
                  FilePath(hostList[k], item) \notin pre =>
                     \E e \in 1..Len(queue) :
                        queue[e].url = generate_graph_url(item.itemid)

\* C4: without a successful login nothing is enumerated, created, started
\* or written, and a run stopped by a failed login stays stopped.
C4_AuthFatal ==
    /\ [](cookies = "none" =>
            /\ pc \in {"start", "stopped"}
            /\ hostGets = 0 /\ itemGets = 0
            /\ queue = <<>> /\ threads = <<>> /\ opened = {})
    /\ [][cookies = "none" =>
            /\ dirs' = dirs /\ files' = files /\ partial' = partial
            /\ hostGets' = hostGets /\ itemGets' = itemGets
            /\ threads' = threads]_vars
    /\ [][pc = "stopped" => pc' = "stopped"]_vars

C4_Witness ==
    /\ pc = "stopped"
    /\ cookies = "none"
    /\ err \in {"HTTPError", "ConnectionError"}
    /\ hostList # <<>>

\* C5: completion is declared only when a thread was started for every
\* queue entry and every thread has terminated and been joined; after that
\* no file is written and no thread changes.
C5_JoinAll ==
    /\ [](pc = "completed" =>
            /\ Len(threads) = Len(queue)
            /\ progress = Len(threads)
            /\ \A t \in Threads : Done(t))
    /\ [][pc = "completed" =>
            /\ files' = files /\ partial' = partial
            /\ (threads' = threads /\ opened' = opened) \/ pc' = "start"]_vars

C5_Witness ==
    /\ pc = "completed"
    /\ Len(threads) >= 2
    /\ progress = Len(threads)
    /\ \A t \in Threads : threads[t].st = "ok"

\* C6: once the downloads start the run reports completion; a step of one
\* task changes no other task, a task makes at most `ceiling` attempts and
\* fails only after exactly `ceiling` attempts of its own.
C6_RunCompletes ==
    /\ (pc = "download") ~> (pc = "completed")
    /\ [][Len(threads') = Len(threads) =>
            Cardinality({t \in Threads : threads'[t] # threads[t]}) <= 1]_vars
    /\ [][Len(threads') > Len(threads) =>
            \A t \in Threads : threads'[t] = threads[t]]_vars
    /\ [](\A t \in Threads :
            /\ threads[t].att <= DOWNLOAD_RETRY_COUNT
            /\ threads[t].st = "fail" => threads[t].att = DOWNLOAD_RETRY_COUNT)

C6_Witness ==
    /\ pc = "completed"
    /\ Len(threads) >= 2
    /\ threads[1].st = "fail"
    /\ threads[2].st = "ok" /\ threads[2].att = 1

\* No two items that were listed share a URL without sharing a path.
NoUrlClash ==
    \A j, k \in 1..Len(hostList) :
       (GotList(j) /\ GotList(k)) =>
          \A x \in Range(ans[j].items) : \A y \in Range(ans[k].items) :
             generate_graph_url(x.itemid) = generate_graph_url(y.itemid)
                => FilePath(hostList[j], x) = FilePath(hostList[k], y)

\* C7 (as stated): the second run's queue is empty.
C7_SecondQueueEmpty == run = "second" => queue = <<>>

\* C7 (amended): when every download task of the first run returned True
\* and no two listed items share a URL without sharing a destination path,
\* the second run's queue stays empty and no download thread is started.
C7_SecondQueueEmptyAfterSuccess ==
    (run = "second" /\ firstOk /\ NoUrlClash) =>
        /\ queue = <<>>
        /\ threads = <<>>
        /\ pc \notin {"download", "join", "completed"}

C7_Witness ==
    /\ run = "second"
    /\ firstOk
    /\ NoUrlClash
    /\ pc = "noimages"
    /\ FilePath("h", ItemD) \in files
    /\ \E k \in 1..Len(hostList) : GotList(k) /\ ItemD \in Range(ans[k].items)

\* C8: a file that existed when the run started is never queued, never
\* given to a thread, never opened for writing, and stays in place.
C8_PreexistingUntouched ==
    \A p \in pre :
        /\ Exists(p)
        /\ p \notin opened
        /\ \A e \in 1..Len(queue) : queue[e].path # p
        /\ \A t \in Threads : threads[t].path # p

C8_Witness ==
    /\ run = "first"
    /\ pc = "completed"
    /\ \E k \in 1..Len(hostList) :
          /\ GotList(k)
          /\ \E item \in Range(ans[k].items) : FilePath(hostList[k], item) \in pre
          /\ \E item \in Range(ans[k].items) : FilePath(hostList[k], item) \in opened

\* C9 (as stated): while the orchestrator waits in join for a thread that is
\* still running, the progress count equals the number of completed tasks.
C9_ProgressCountsCompleted ==
    (pc = "join" /\ progress < Len(threads) /\ ~Done(progress + 1)) =>
        progress = NumDone

\* C9 (amended): the progress count never exceeds the number of completed
\* tasks; it counts the joined prefix of the thread list, in queue order, so
\* a completed entry is counted only after every entry queued before it has
\* completed; completion is declared with every entry counted.
C9_ProgressCountsJoinedPrefix ==
    /\ progress <= NumDone
    /\ progress <= Len(threads)
    /\ \A t \in 1..progress : Done(t)
    /\ pc = "completed" => progress = NumDone

C9_Witness ==
    /\ pc = "join"
    /\ Len(threads) >= 2
    /\ progress = 1
    /\ ~Done(2)

\* Every item id listed so far is free of the separator "_".
PlainIds ==
    \A k \in 1..Len(hostList) :
       \A item \in Range(ans[k].items) : "_" \notin Range(item.itemid)

DistinctPaths ==
    /\ \A j, k \in 1..Len(queue) : j # k => queue[j].path # queue[k].path
    /\ \A j, k \in 1..Len(queue) : j # k => queue[j].url # queue[k].url
    /\ Len(threads) <= Len(queue)
    /\ pc \in {"join", "completed"} => Len(threads) = Len(queue)
    /\ \A t \in Threads :
         threads[t].url = queue[t].url /\ threads[t].path = queue[t].path

\* C10 (as stated): distinct URLs of the queue have distinct destination
\* paths and one thread is started per queue entry.
C10_DistinctPaths == DistinctPaths

\* C10 (amended): the same, for item lists whose item ids do not contain
\* the character "_" that separates the parts of the file name.
C10_DistinctPathsPlainIds == PlainIds => DistinctPaths

C10_Witness ==
    /\ PlainIds
    /\ pc = "join"
    /\ Len(threads) = 2
    /\ \E k \in 1..Len(hostList) : GotList(k) /\ ans[k].items = <<ItemA, ItemD>>

====
